---- MODULE Spec2Model ----
(***************************************************************************)
(* Ticker-Sorter ("marble"): the universe reconciler                       *)
(* (filter_tickers_async.py), the metrics refresh (polygon_client.py) and  *)
(* the dashboard's timeframe fetch-and-save (timeframe.py, dashboard.py),  *)
(* all writing the one Mongo collection marble.tickers.                    *)
(*                                                                         *)
(* Scales: market caps are in units of 100,000,000 dollars, so MIN_MCAP    *)
(* (500,000,000) is 5. A nullable value is <<>> (None / field absent) or   *)
(* <<v>>. Time is a counter that advances when a batch starts; every       *)
(* datetime read inside the batch returns the counter's current value.     *)
(***************************************************************************)
EXTENDS Integers, Sequences, FiniteSets, TLC

VARIABLES
    store,      \* the collection marble.tickers
    indexes,    \* the indexes created on it
    clock,      \* the time
    rc,         \* the reconciler's run
    mt,         \* the metrics refresh's run
    tf,         \* the dashboard's Fetch & Save run
    hist,       \* history: what the last reconcile did, first insert times
    calc        \* one call of a metric computation: its inputs and result

vars == <<store, indexes, clock, rc, mt, tf, hist, calc>>

-----------------------------------------------------------------------------
(* Bounds of the model *)

\* permits of each batch's semaphore (75, 75 and 50 in the source)
MaxPermits == 1
\* number of batch starts, i.e. the last value of the clock
MaxClock == 3

\* filter_tickers_async.py: MIN_MCAP = 500_000_000, in units of 100,000,000
MIN_MCAP == 5

-----------------------------------------------------------------------------
(* Nullable values *)

None == <<>>
Some(v) == <<v>>
IsSome(o) == o # <<>>
Val(o) == o[1]

\* the symbols the upstream reference universe can list; "b" is a ticker
\* with a lower-case letter, whose upper-cased form is "B"
Cands == {"A", "b"}
Tickers == {"A", "b", "B"}

\* str.upper()
Upper(t) == IF t = "b" THEN "B" ELSE t

-----------------------------------------------------------------------------
(* The document store: one TickerRecord per ticker, None when absent *)

Fields == {"market_cap", "universe_updated_at", "created_at",
           "metrics_updated_at", "industry", "eps", "net_income_quarterly",
           "revenue_quarterly", "net_profit_margin", "close_price",
           "pe_ratio", "stock_change_pct", "volume_custom"}

EmptyDoc == [f \in Fields |-> None]

Persisted(st) == {t \in Tickers : IsSome(st[t])}

SetFieldsSkipNull(d, p) ==
    [f \in Fields |-> IF f \in DOMAIN p /\ IsSome(p[f]) THEN p[f] ELSE d[f]]

\* $set of the fields of payload p into document d
SetFields(d, p) == [f \in Fields |-> IF f \in DOMAIN p THEN p[f] ELSE d[f]]

UpdateOneResetsOnInsert(st, key, set, onInsert, upsert) ==
    IF IsSome(st[key])
    THEN [st EXCEPT ![key] = Some(SetFields(SetFields(Val(st[key]), onInsert), set))]
    ELSE IF upsert
         THEN [st EXCEPT ![key] = Some(SetFields(SetFields(EmptyDoc, onInsert), set))]
         ELSE st

UpdateOneIgnoresFilter(st, key, set, onInsert, upsert) ==
    [t \in Tickers |->
        IF IsSome(st[t]) THEN Some(SetFields(Val(st[t]), set))
        ELSE IF upsert /\ t = key
             THEN Some(SetFields(SetFields(EmptyDoc, onInsert), set))
             ELSE st[t]]

UpdateOneReplaces(st, key, set, onInsert, upsert) ==
    IF IsSome(st[key])
    THEN [st EXCEPT ![key] = Some(SetFields(EmptyDoc, set))]
    ELSE IF upsert
         THEN [st EXCEPT ![key] = Some(SetFields(SetFields(EmptyDoc, onInsert), set))]
         ELSE st

\* collection.update_one({"ticker": key}, {"$set": set, "$setOnInsert": onInsert},
\*                       upsert=upsert)
UpdateOne(st, key, set, onInsert, upsert) ==
    IF IsSome(st[key])
    THEN [st EXCEPT ![key] = Some(SetFields(Val(st[key]), set))]
    ELSE IF upsert
         THEN [st EXCEPT ![key] = Some(SetFields(SetFields(EmptyDoc, onInsert), set))]
         ELSE st

DeleteManyNothing(st, keep) == st

DeleteManyIn(st, keep) == [t \in Tickers |-> IF t \in keep THEN None ELSE st[t]]

\* collection.delete_many({"ticker": {"$nin": keep}})
DeleteManyNin(st, keep) == [t \in Tickers |-> IF t \in keep THEN st[t] ELSE None]

-----------------------------------------------------------------------------
(* asyncio.Semaphore: a batch's semaphore is its count of free permits *)

CanAcquireAlways(sem) == TRUE

\* `async with semaphore` enters only while a permit is free
CanAcquire(sem) == sem > 0

-----------------------------------------------------------------------------
(* History, kept for the properties only: prev is the answers and the      *)
(* resulting collection of the reconcile that completed last, None once    *)
(* another program has run or a reconcile has failed since; born[t] is the *)
(* created_at of the first record ever inserted for t.                     *)

HistInit == [prev |-> None, born |-> [t \in Tickers |-> None]]

\* after a write to key that left the collection as st
Born(h, st, key) ==
    IF IsSome(h.born[key]) \/ ~IsSome(st[key]) THEN h
    ELSE [h EXCEPT !.born[key] = Val(st[key]).created_at]

-----------------------------------------------------------------------------
(* Universe reconciler: filter_by_market_cap_parallel, then sync_to_mongo *)

\* a request that fails: transport error, timeout or non-2xx status
FAIL == [status |-> "fail"]

\* what get_market_cap's request can yield: a failed request, a profile
\* without market_cap, or a market cap just below or at the threshold
CapResponses ==
    {FAIL} \cup {[status |-> "ok", market_cap |-> c] :
                    c \in {None, Some(MIN_MCAP - 1), Some(MIN_MCAP)}}

\* get_market_cap: (ticker, cap), cap None when the request fails
get_market_cap(resp) == IF resp.status = "ok" THEN resp.market_cap ELSE None

PassesAbove(cap, threshold) == IsSome(cap) /\ Val(cap) # 0 /\ Val(cap) > threshold

\* the test `cap and cap >= threshold` of fetch
Passes(cap, threshold) == IsSome(cap) /\ Val(cap) # 0 /\ Val(cap) >= threshold

RcIdle == [pc |-> "idle", w |-> <<>>, cap |-> <<>>, sem |-> 0,
           passed |-> <<>>, now |-> 0, pending |-> {}]

\* main(): the filtered listing is handed to filter_by_market_cap_parallel,
\* which creates its semaphore and one fetch per listed ticker
StartReconcile(listing) ==
    /\ rc.pc = "idle"
    /\ clock < MaxClock
    /\ clock' = clock + 1
    /\ rc' = [RcIdle EXCEPT !.pc = "filter",
                            !.w = [t \in listing |-> "wait"],
                            !.cap = [t \in listing |-> None],
                            !.sem = MaxPermits]
    /\ UNCHANGED <<store, indexes, mt, tf, hist, calc>>

\* fetch: async with semaphore
RcAcquire(t) ==
    /\ rc.pc = "filter"
    /\ t \in DOMAIN rc.w
    /\ rc.w[t] = "wait"
    /\ CanAcquire(rc.sem)
    /\ rc' = [rc EXCEPT !.w[t] = "fetch", !.sem = @ - 1]
    /\ UNCHANGED <<store, indexes, clock, mt, tf, hist, calc>>

\* fetch: the response arrives, the ticker is kept if it qualifies, the
\* permit is released
RcResponse(t, resp) ==
    /\ rc.pc = "filter"
    /\ t \in DOMAIN rc.w
    /\ rc.w[t] = "fetch"
    /\ LET cap == get_market_cap(resp)
       IN rc' = [rc EXCEPT !.w[t] = "done", !.cap[t] = cap, !.sem = @ + 1,
                           !.passed = IF Passes(cap, MIN_MCAP)
                                      THEN (t :> Val(cap)) @@ @
                                      ELSE @]
    /\ UNCHANGED <<store, indexes, clock, mt, tf, hist, calc>>

RcSyncStartWithoutIndexes ==
    /\ rc.pc = "filter"
    /\ \A t \in DOMAIN rc.w : rc.w[t] = "done"
    /\ rc' = [rc EXCEPT !.pc = "sync", !.now = clock, !.pending = DOMAIN rc.passed]
    /\ UNCHANGED <<store, indexes, clock, mt, tf, hist, calc>>

\* sync_to_mongo: ensure_indexes, now, and one update_one issued per
\* qualified ticker
RcSyncStart ==
    /\ rc.pc = "filter"
    /\ \A t \in DOMAIN rc.w : rc.w[t] = "done"
    /\ indexes' = indexes \cup {"ticker_unique", "universe_updated_at"}
    /\ rc' = [rc EXCEPT !.pc = "sync", !.now = clock, !.pending = DOMAIN rc.passed]
    /\ UNCHANGED <<store, clock, mt, tf, hist, calc>>

RcUpsertPayloadWithCreatedAt(t) ==
    [market_cap |-> Some(rc.passed[t]), universe_updated_at |-> Some(rc.now),
     created_at |-> Some(rc.now)]

\* the $set of sync_to_mongo's update_one (without the ticker, the key)
RcUpsertPayload(t) ==
    [market_cap |-> Some(rc.passed[t]), universe_updated_at |-> Some(rc.now)]

\* one of the gathered update_one calls is applied by the store; after a
\* failed sibling the calls already issued may still be applied
RcUpsert(t) ==
    /\ rc.pc \in {"sync", "failed"}
    /\ t \in rc.pending
    /\ store' = UpdateOne(store, t, RcUpsertPayload(t),
                          [created_at |-> Some(rc.now)], TRUE)
    /\ rc' = [rc EXCEPT !.pending = @ \ {t}]
    /\ hist' = Born(hist, store', t)
    /\ UNCHANGED <<indexes, clock, mt, tf, calc>>

\* one of the gathered update_one calls raises: gather raises and
\* sync_to_mongo ends before delete_many
RcUpsertFail(t) ==
    /\ rc.pc = "sync"
    /\ t \in rc.pending
    /\ rc' = [rc EXCEPT !.pc = "failed", !.pending = @ \ {t}]
    /\ hist' = [hist EXCEPT !.prev = None]
    /\ UNCHANGED <<store, indexes, clock, mt, tf, calc>>

\* delete_many of every record whose ticker is not qualified; sync_to_mongo
\* and the run end
RcDelete ==
    /\ rc.pc = "sync"
    /\ rc.pending = {}
    /\ store' = DeleteManyNin(store, DOMAIN rc.passed)
    /\ rc' = RcIdle
    /\ hist' = [hist EXCEPT !.prev = Some([cap |-> rc.cap, store |-> store'])]
    /\ UNCHANGED <<indexes, clock, mt, tf, calc>>

\* the exception leaves main() and the process ends; update_one calls
\* that were issued and not applied by then are lost
RcExit ==
    /\ rc.pc = "failed"
    /\ rc' = RcIdle
    /\ UNCHANGED <<store, indexes, clock, mt, tf, hist, calc>>

RcStart == \E listing \in SUBSET Cands : StartReconcile(listing)

RcSteps ==
    \/ \E t \in Cands : RcAcquire(t)
    \/ \E t \in Cands, resp \in CapResponses : RcResponse(t, resp)
    \/ RcSyncStart
    \/ \E t \in Cands : RcUpsert(t)
    \/ \E t \in Cands : RcUpsertFail(t)
    \/ RcDelete
    \/ RcExit

-----------------------------------------------------------------------------
(* Arithmetic of the metric computations *)

\* round(n / d) to the nearest integer, ties to the even one, for d > 0
RoundHalfEven(n, d) ==
    LET q == n \div d
        r == n % d
    IN IF 2 * r < d THEN q
       ELSE IF 2 * r > d THEN q + 1
       ELSE IF q % 2 = 0 THEN q ELSE q + 1

\* round(n / d) for d # 0
RoundDiv(n, d) == IF d < 0 THEN RoundHalfEven(-n, -d) ELSE RoundHalfEven(n, d)

RECURSIVE SumSeq(_)
SumSeq(s) == IF s = <<>> THEN 0 ELSE Head(s) + SumSeq(Tail(s))

\* the values of the entries of s that carry one, in order
RECURSIVE Present(_)
Present(s) ==
    IF s = <<>> THEN <<>>
    ELSE IF IsSome(Head(s)) THEN <<Val(Head(s))>> \o Present(Tail(s))
    ELSE Present(Tail(s))

-----------------------------------------------------------------------------
(* Metrics refresh: process_all_tickers and fetch_metrics                  *)
(* Units: eps values of the reports are in 0.00001 dollars, the stored eps *)
(* and net_profit_margin in 0.0001, close_price and pe_ratio in 0.01.      *)

\* /v3/reference/tickers/{ticker}
ProfileResponses ==
    {FAIL, [status |-> "ok", sic_description |-> Some("Tech")]}

\* one quarterly report: diluted EPS, net income and revenues, each of
\* which the report may lack
Report(e, n, r) == [eps |-> e, net_income |-> n, revenues |-> r]

\* /vX/reference/financials, limit 4
FinResponses ==
    {FAIL,
     [status |-> "ok", results |-> <<>>],
     [status |-> "ok", results |-> <<Report(Some(150004), Some(20), Some(100)),
                                     Report(None, Some(5), Some(50))>>]}

\* /v1/open-close/{ticker}/{day}: a transport failure, a status other than
\* 200, or a close price
OcResponses ==
    {FAIL, [status |-> "http", code |-> 404],
     [status |-> "ok", close |-> Some(3000)]}

EpsTtmZeroWhenEmpty(reports) ==
    LET eps_list == Present([i \in 1..Len(reports) |-> reports[i].eps])
    IN Some(RoundDiv(SumSeq(eps_list), 10))

\* eps_ttm = round(sum(eps_list), 4) if eps_list else None
EpsTtm(reports) ==
    LET eps_list == Present([i \in 1..Len(reports) |-> reports[i].eps])
    IN IF eps_list = <<>> THEN None ELSE Some(RoundDiv(SumSeq(eps_list), 10))

NetProfitMarginOrZero(net_income, revenue) ==
    IF IsSome(net_income) /\ IsSome(revenue) /\ Val(revenue) # 0
    THEN Some(RoundDiv(Val(net_income) * 10000, Val(revenue)))
    ELSE Some(0)

\* round(net_income / revenue, 4) if both are numbers and revenue is not 0
NetProfitMargin(net_income, revenue) ==
    IF IsSome(net_income) /\ IsSome(revenue) /\ Val(revenue) # 0
    THEN Some(RoundDiv(Val(net_income) * 10000, Val(revenue)))
    ELSE None

\* round(close_price / eps_ttm, 2) if both are numbers and eps_ttm is not 0
PeRatio(close_price, eps_ttm) ==
    IF IsSome(close_price) /\ IsSome(eps_ttm) /\ Val(eps_ttm) # 0
    THEN Some(RoundDiv(Val(close_price) * 10000, Val(eps_ttm)))
    ELSE None

FetchMetricsRaisesOnStatus(now, ref, fin, oc) ==
    IF ref.status # "ok" \/ fin.status # "ok" \/ oc.status # "ok"
    THEN None
    ELSE LET reports == fin.results
             net_income == IF reports = <<>> THEN None ELSE reports[1].net_income
             revenue == IF reports = <<>> THEN None ELSE reports[1].revenues
             eps_ttm == EpsTtm(reports)
         IN Some([metrics_updated_at |-> Some(now),
                  industry |-> ref.sic_description,
                  eps |-> eps_ttm,
                  net_income_quarterly |-> net_income,
                  revenue_quarterly |-> revenue,
                  net_profit_margin |-> NetProfitMargin(net_income, revenue),
                  close_price |-> oc.close,
                  pe_ratio |-> PeRatio(oc.close, eps_ttm)])

\* fetch_metrics: the dict `out` (without its ticker), or None when the
\* profile request, the financials request or the transport of the
\* close-price request fails
fetch_metrics(now, ref, fin, oc) ==
    IF ref.status # "ok" \/ fin.status # "ok" \/ oc.status = "fail"
    THEN None
    ELSE LET reports == fin.results
             net_income == IF reports = <<>> THEN None ELSE reports[1].net_income
             revenue == IF reports = <<>> THEN None ELSE reports[1].revenues
             eps_ttm == EpsTtm(reports)
             close_price == IF oc.status = "ok" THEN oc.close ELSE None
         IN Some([metrics_updated_at |-> Some(now),
                  industry |-> ref.sic_description,
                  eps |-> eps_ttm,
                  net_income_quarterly |-> net_income,
                  revenue_quarterly |-> revenue,
                  net_profit_margin |-> NetProfitMargin(net_income, revenue),
                  close_price |-> close_price,
                  pe_ratio |-> PeRatio(close_price, eps_ttm)])

\* load_tickers_from_mongo: the persisted tickers, upper-cased, without
\* duplicates
load_tickers_from_mongo(st) == {Upper(t) : t \in Persisted(st)}

MtIdle == [pc |-> "idle", w |-> <<>>, ts |-> <<>>, data |-> <<>>, sem |-> 0]

\* process_all_tickers: ensure_indexes, the symbols are read, and one
\* worker task is created per symbol; with no symbol it returns at once
StartMetrics ==
    /\ mt.pc = "idle"
    /\ clock < MaxClock
    /\ clock' = clock + 1
    /\ indexes' = indexes \cup {"ticker_unique", "metrics_updated_at"}
    /\ LET symbols == load_tickers_from_mongo(store)
       IN mt' = IF symbols = {} THEN MtIdle
                ELSE [pc |-> "run",
                      w |-> [s \in symbols |-> "wait"],
                      ts |-> [s \in symbols |-> 0],
                      data |-> [s \in symbols |-> None],
                      sem |-> MaxPermits]
    /\ hist' = [hist EXCEPT !.prev = None]
    /\ UNCHANGED <<store, rc, tf, calc>>

\* worker: async with semaphore; fetch_metrics starts and reads the time
MtAcquire(s) ==
    /\ mt.pc = "run"
    /\ s \in DOMAIN mt.w
    /\ mt.w[s] = "wait"
    /\ CanAcquire(mt.sem)
    /\ mt' = [mt EXCEPT !.w[s] = "fetch", !.sem = @ - 1, !.ts[s] = clock]
    /\ UNCHANGED <<store, indexes, clock, rc, tf, hist, calc>>

\* worker: fetch_metrics returns. Without data the worker ends and releases
\* its permit, with data it issues the upsert. A worker that was fetching
\* when a sibling's write failed may still get this far.
MtFetch(s, ref, fin, oc) ==
    /\ mt.pc \in {"run", "failed"}
    /\ s \in DOMAIN mt.w
    /\ mt.w[s] = "fetch"
    /\ LET data == fetch_metrics(mt.ts[s], ref, fin, oc)
       IN IF IsSome(data)
          THEN mt' = [mt EXCEPT !.w[s] = "write",
                                !.data[s] = Some([set |-> Val(data),
                                                  onInsert |-> [created_at |-> Some(clock)]])]
          ELSE mt' = [mt EXCEPT !.w[s] = "done", !.sem = @ + 1]
    /\ UNCHANGED <<store, indexes, clock, rc, tf, hist, calc>>

\* worker: the upsert is applied and the permit released
MtWrite(s) ==
    /\ mt.pc \in {"run", "failed"}
    /\ s \in DOMAIN mt.w
    /\ mt.w[s] = "write"
    /\ store' = UpdateOne(store, s, Val(mt.data[s]).set, Val(mt.data[s]).onInsert, TRUE)
    /\ mt' = [mt EXCEPT !.w[s] = "done", !.sem = @ + 1]
    /\ hist' = Born(hist, store', s)
    /\ UNCHANGED <<indexes, clock, rc, tf, calc>>

\* worker: the upsert raises. The exception leaves the worker, gather
\* re-raises it in process_all_tickers, the HTTP client is closed and the
\* run ends; workers still waiting for a permit never fetch.
MtWriteFail(s) ==
    /\ mt.pc = "run"
    /\ s \in DOMAIN mt.w
    /\ mt.w[s] = "write"
    /\ mt' = [mt EXCEPT !.pc = "failed", !.w[s] = "raised", !.data[s] = None,
                         !.sem = @ + 1]
    /\ UNCHANGED <<store, indexes, clock, rc, tf, hist, calc>>

\* gather returns: every worker has ended, and so does the run
MtGather ==
    /\ mt.pc = "run"
    /\ \A s \in DOMAIN mt.w : mt.w[s] = "done"
    /\ mt' = MtIdle
    /\ UNCHANGED <<store, indexes, clock, rc, tf, hist, calc>>

\* asyncio.run cancels the tasks that are left and the process ends
MtExit ==
    /\ mt.pc = "failed"
    /\ mt' = MtIdle
    /\ UNCHANGED <<store, indexes, clock, rc, tf, hist, calc>>

MtSteps ==
    \/ \E s \in Tickers : MtAcquire(s)
    \/ \E s \in Tickers, ref \in ProfileResponses, fin \in FinResponses,
          oc \in OcResponses : MtFetch(s, ref, fin, oc)
    \/ \E s \in Tickers : MtWrite(s)
    \/ \E s \in Tickers : MtWriteFail(s)
    \/ MtGather
    \/ MtExit

-----------------------------------------------------------------------------
(* Dashboard: timeframe.main over the queried tickers, then the save loop  *)
(* Units: prices in dollars, stock_change_pct in 0.01 percent.             *)

\* the upstream's close on the start date and on the end date
ClosePrice(which) == IF which = "start" THEN 100 ELSE 110

\* /v1/open-close/{ticker}/{date}: a failed request, a body without close,
\* or the close price of that date
PriceResponses(which) ==
    {FAIL, [status |-> "ok", close |-> None],
     [status |-> "ok", close |-> Some(ClosePrice(which))]}

\* /v2/aggs/ticker/{ticker}/range/1/day/{start}/{end}: a failed request or
\* the daily bars, each with its volume v or without one
VolumeResponses ==
    {FAIL, [status |-> "ok", results |-> <<Some(3), None, Some(4)>>]}

\* Min Market Cap values the sidebar is given
MinCaps == {5, 6}

\* get_close_price: the close, None when the request fails
get_close_price(resp) == IF resp.status = "ok" THEN resp.close ELSE None

\* get_volume_sum: sum(d.get("v", 0) for d in data), None when the request fails
get_volume_sum(resp) ==
    IF resp.status = "ok" THEN Some(SumSeq(Present(resp.results))) ELSE None

\* the test `not price`
Missing(price) == ~IsSome(price) \/ Val(price) = 0

ChangePctOfEnd(start_price, end_price) ==
    RoundDiv((end_price - start_price) * 10000, end_price)

\* round(((end_price - start_price) / start_price) * 100, 2)
ChangePct(start_price, end_price) ==
    RoundDiv((end_price - start_price) * 10000, start_price)

StockMetricsKeepsVolume(ticker, start_price, end_price, volume) ==
    IF Missing(start_price) \/ Missing(end_price)
    THEN [ticker |-> ticker, stock_change_pct |-> None, volume_custom |-> volume]
    ELSE [ticker |-> ticker,
          stock_change_pct |-> Some(ChangePct(Val(start_price), Val(end_price))),
          volume_custom |-> volume]

\* fetch_stock_metrics, once its three lookups have returned
StockMetrics(ticker, start_price, end_price, volume) ==
    IF Missing(start_price) \/ Missing(end_price)
    THEN [ticker |-> ticker, stock_change_pct |-> None, volume_custom |-> None]
    ELSE [ticker |-> ticker,
          stock_change_pct |-> Some(ChangePct(Val(start_price), Val(end_price))),
          volume_custom |-> volume]

\* the orders a set of tickers can be listed in
Orders(S) ==
    {q \in [1..Cardinality(S) -> S] : \A i, j \in DOMAIN q : q[i] = q[j] => i = j}

\* collection.find({"market_cap": {"$gte": min_cap}})
FindByMarketCap(st, min_cap) ==
    {t \in Persisted(st) : /\ IsSome(Val(st[t]).market_cap)
                           /\ Val(Val(st[t]).market_cap) >= min_cap}

TfIdle == [pc |-> "idle", list |-> <<>>, w |-> <<>>,
           got |-> <<>>, start_price |-> <<>>, end_price |-> <<>>,
           sem |-> 0, results |-> <<>>, idx |-> 0]

\* The script queries the tickers and Fetch & Save runs timeframe.main
\* over them.
StartTimeframe(min_cap, list) ==
    /\ tf.pc = "idle"
    /\ clock < MaxClock
    /\ clock' = clock + 1
    /\ list \in Orders(FindByMarketCap(store, min_cap))
    /\ tf' = [TfIdle EXCEPT !.pc = "run", !.list = list,
                            !.w = [i \in DOMAIN list |-> "wait"],
                            !.got = [i \in DOMAIN list |-> {}],
                            !.start_price = [i \in DOMAIN list |-> None],
                            !.end_price = [i \in DOMAIN list |-> None],
                            !.results = [i \in DOMAIN list |-> None],
                            !.sem = MaxPermits]
    /\ hist' = [hist EXCEPT !.prev = None]
    /\ UNCHANGED <<store, indexes, rc, mt, calc>>

\* fetch_stock_metrics: async with semaphore; both close-price requests
\* are sent by the inner gather
TfAcquire(i) ==
    /\ tf.pc = "run"
    /\ i \in DOMAIN tf.w
    /\ tf.w[i] = "wait"
    /\ CanAcquire(tf.sem)
    /\ tf' = [tf EXCEPT !.w[i] = "prices", !.sem = @ - 1]
    /\ UNCHANGED <<store, indexes, clock, rc, mt, hist, calc>>

\* one of the two get_close_price calls returns; when both have, the inner
\* gather returns and the volume request is sent
TfPrice(i, which, resp) ==
    /\ tf.pc = "run"
    /\ i \in DOMAIN tf.w
    /\ tf.w[i] = "prices"
    /\ which \notin tf.got[i]
    /\ tf' = [tf EXCEPT
                !.got[i] = @ \cup {which},
                !.start_price[i] = IF which = "start" THEN get_close_price(resp) ELSE @,
                !.end_price[i] = IF which = "end" THEN get_close_price(resp) ELSE @,
                !.w[i] = IF tf.got[i] \cup {which} = {"start", "end"}
                         THEN "volume" ELSE @]
    /\ UNCHANGED <<store, indexes, clock, rc, mt, hist, calc>>

\* get_volume_sum returns, the result of the symbol is built and the permit
\* released
TfVolume(i, resp) ==
    /\ tf.pc = "run"
    /\ i \in DOMAIN tf.w
    /\ tf.w[i] = "volume"
    /\ tf' = [tf EXCEPT
                !.w[i] = "done",
                !.got[i] = {}, !.start_price[i] = None, !.end_price[i] = None,
                !.results[i] = Some(StockMetrics(tf.list[i], tf.start_price[i],
                                                 tf.end_price[i], get_volume_sum(resp))),
                !.sem = @ + 1]
    /\ UNCHANGED <<store, indexes, clock, rc, mt, hist, calc>>

\* the outer gather returns the results and the save loop begins
TfGather ==
    /\ tf.pc = "run"
    /\ \A i \in DOMAIN tf.w : tf.w[i] = "done"
    /\ tf' = IF tf.list # <<>>
             THEN [tf EXCEPT !.pc = "save", !.idx = 1]
             ELSE TfIdle
    /\ UNCHANGED <<store, indexes, clock, rc, mt, hist, calc>>

TfSavePayload(m) ==
    [stock_change_pct |-> m.stock_change_pct, volume_custom |-> m.volume_custom]

\* one pass of `for m in metrics`: update_one without upsert
TfSave ==
    /\ tf.pc = "save"
    /\ LET m == Val(tf.results[tf.idx])
       IN store' = UpdateOne(store, m.ticker, TfSavePayload(m), <<>>, FALSE)
    /\ tf' = IF tf.idx = Len(tf.list) THEN TfIdle ELSE [tf EXCEPT !.idx = @ + 1]
    /\ UNCHANGED <<indexes, clock, rc, mt, hist, calc>>

\* update_one raises: the exception leaves the loop and the handler
TfSaveFail ==
    /\ tf.pc = "save"
    /\ tf' = [tf EXCEPT !.pc = "failed"]
    /\ UNCHANGED <<store, indexes, clock, rc, mt, hist, calc>>

\* the script run ends with the error shown
TfExit ==
    /\ tf.pc = "failed"
    /\ tf' = TfIdle
    /\ UNCHANGED <<store, indexes, clock, rc, mt, hist, calc>>

TfStart ==
    \E min_cap \in MinCaps, list \in UNION {Orders(S) : S \in SUBSET Tickers} :
       StartTimeframe(min_cap, list)

TfSteps ==
    \/ \E i \in 1..Cardinality(Tickers) : TfAcquire(i)
    \/ \E i \in 1..Cardinality(Tickers), which \in {"start", "end"} :
          \E resp \in PriceResponses(which) : TfPrice(i, which, resp)
    \/ \E i \in 1..Cardinality(Tickers), resp \in VolumeResponses : TfVolume(i, resp)
    \/ TfGather
    \/ TfSave
    \/ TfSaveFail
    \/ TfExit

-----------------------------------------------------------------------------
(* One call of fetch_metrics on given responses *)

CalcIdle == [op |-> "none"]

\* the responses of the three lookups, with more shapes than the batches
\* are run on: a profile without sic_description, reports that lack a
\* value, have revenues 0 or EPS 0, or whose EPS sum to 0 or round to 0,
\* a 500 and a body without close
CalcProfileResponses ==
    ProfileResponses \cup {[status |-> "ok", sic_description |-> None]}

CalcFinResponses ==
    FinResponses \cup
    {[status |-> "ok", results |-> <<Report(Some(150004), None, Some(100))>>],
     [status |-> "ok", results |-> <<Report(Some(0), Some(20), Some(0))>>],
     [status |-> "ok", results |-> <<Report(Some(25005), Some(1), Some(3)),
                                     Report(Some(25000), None, None),
                                     Report(Some(-10000), None, None),
                                     Report(Some(35), None, None)>>],
     [status |-> "ok", results |-> <<Report(Some(10000), Some(20), None),
                                     Report(Some(-10000), None, None)>>],
     [status |-> "ok", results |-> <<Report(Some(4), None, Some(100))>>],
     [status |-> "ok", results |-> <<Report(None, Some(20), Some(100)),
                                     Report(None, Some(5), Some(50))>>]}

CalcOcResponses ==
    OcResponses \cup {[status |-> "http", code |-> 500],
                      [status |-> "ok", close |-> None]}

\* the responses fetch_stock_metrics is called on: close prices of 0, 3, 4,
\* 100 and 110 dollars, and daily bars with and without volumes
CalcPriceResponses ==
    {FAIL, [status |-> "ok", close |-> None]}
    \cup {[status |-> "ok", close |-> Some(c)] : c \in {0, 3, 4, 100, 110}}

CalcVolumeResponses ==
    VolumeResponses \cup {[status |-> "ok", results |-> <<>>]}

\* the calls of fetch_metrics: a time and the three responses
CalcMetricsCalls ==
    [op : {"call"}, now : 1..MaxClock, ref : CalcProfileResponses,
     fin : CalcFinResponses, oc : CalcOcResponses, out : {None}]

\* the calls of fetch_stock_metrics: a ticker and the three responses
CalcStockCalls ==
    [op : {"tf_call"}, ticker : {"A"}, start : CalcPriceResponses,
     end : CalcPriceResponses, vol : CalcVolumeResponses, out : {None}]

\* a call of fetch_metrics or of fetch_stock_metrics is made
InitCalc ==
    /\ store = [t \in Tickers |-> None]
    /\ indexes = {}
    /\ clock = 0
    /\ rc = RcIdle
    /\ mt = MtIdle
    /\ tf = TfIdle
    /\ hist = HistInit
    /\ calc \in CalcMetricsCalls \cup CalcStockCalls

\* the call returns
CalcFetchMetrics ==
    /\ calc.op = "call"
    /\ calc' = [calc EXCEPT !.op = "done",
                            !.out = fetch_metrics(calc.now, calc.ref, calc.fin, calc.oc)]
    /\ UNCHANGED <<store, indexes, clock, rc, mt, tf, hist>>

\* the call of fetch_stock_metrics returns
CalcFetchStockMetrics ==
    /\ calc.op = "tf_call"
    /\ calc' = [calc EXCEPT
                  !.op = "tf_done",
                  !.out = Some(StockMetrics(calc.ticker, get_close_price(calc.start),
                                            get_close_price(calc.end),
                                            get_volume_sum(calc.vol)))]
    /\ UNCHANGED <<store, indexes, clock, rc, mt, tf, hist>>

NextCalc ==
    \/ CalcFetchMetrics
    \/ CalcFetchStockMetrics

SpecCalc == InitCalc /\ [][NextCalc]_vars

-----------------------------------------------------------------------------

Init ==
    /\ store = [t \in Tickers |-> None]
    /\ indexes = {}
    /\ clock = 0
    /\ rc = RcIdle
    /\ mt = MtIdle
    /\ tf = TfIdle
    /\ hist = HistInit
    /\ calc = CalcIdle

\* no batch is running
Quiet == rc.pc = "idle" /\ mt.pc = "idle" /\ tf.pc = "idle"

Steps == RcSteps \/ MtSteps \/ TfSteps

\* The three programs are run one after the other: a batch starts when no
\* other is running.
Next ==
    \/ Quiet /\ RcStart
    \/ Quiet /\ StartMetrics
    \/ Quiet /\ TfStart
    \/ Steps

Spec == Init /\ [][Next]_vars

\* The same with a fair scheduler: a batch that can take a step takes one.
\* Every await of a batch is answered (by a response, a timeout or an
\* error), so a running batch is never left waiting forever.
SpecFair == Spec /\ WF_vars(Steps)

\* Only the reconciler is run.
NextReconciler ==
    \/ RcStart
    \/ RcSteps

SpecReconciler == Init /\ [][NextReconciler]_vars

\* The reconciler and the metrics refresh, one after the other.
NextMetrics ==
    \/ Quiet /\ RcStart
    \/ Quiet /\ StartMetrics
    \/ RcSteps
    \/ MtSteps

SpecMetrics == Init /\ [][NextMetrics]_vars

\* The reconciler and the dashboard, one after the other.
NextDashboard ==
    \/ Quiet /\ RcStart
    \/ Quiet /\ TfStart
    \/ RcSteps
    \/ TfSteps

SpecDashboard == Init /\ [][NextDashboard]_vars

\* The reconciler and the metrics refresh run side by side: either may start
\* while the other is running.
NextOverlap ==
    \/ RcStart
    \/ StartMetrics
    \/ RcSteps
    \/ MtSteps

SpecOverlap == Init /\ [][NextOverlap]_vars

\* The three programs run side by side against the one collection.
NextConcurrent ==
    \/ RcStart
    \/ StartMetrics
    \/ TfStart
    \/ Steps

SpecConcurrent == Init /\ [][NextConcurrent]_vars

-----------------------------------------------------------------------------
(* Properties *)

\* the workers of each batch that hold a permit of its semaphore
RcHolding == {t \in DOMAIN rc.w : rc.w[t] = "fetch"}
MtHolding == {s \in DOMAIN mt.w : mt.w[s] \in {"fetch", "write"}}
TfHolding == {i \in DOMAIN tf.w : tf.w[i] \in {"prices", "volume"}}

\* C1: in each batch (filter_by_market_cap_parallel, process_all_tickers,
\* timeframe.main) the workers holding a permit, i.e. the per-symbol fetch
\* operations in flight, never number more than the semaphore's permits,
\* and the free permits are those not held.
C1_InFlightBounded ==
    /\ Cardinality(RcHolding) <= MaxPermits
    /\ Cardinality(MtHolding) <= MaxPermits
    /\ Cardinality(TfHolding) <= MaxPermits
    /\ rc.pc = "filter" => rc.sem = MaxPermits - Cardinality(RcHolding)
    /\ mt.pc = "run" => mt.sem = MaxPermits - Cardinality(MtHolding)
    /\ tf.pc = "run" => tf.sem = MaxPermits - Cardinality(TfHolding)

\* a dashboard batch of two symbols with every permit taken and a worker
\* left waiting for one
C1_Witness ==
    /\ tf.pc = "run"
    /\ Len(tf.list) = 2
    /\ Cardinality(TfHolding) = MaxPermits
    /\ \E i \in DOMAIN tf.w : tf.w[i] = "wait"


\* the HTTP requests that have been sent and not yet answered
RcRequests == RcHolding
MtRequests == {s \in DOMAIN mt.w : mt.w[s] = "fetch"}
TfRequests ==
    {<<i, which>> \in (DOMAIN tf.w) \X {"start", "end"} :
        tf.w[i] = "prices" /\ which \notin tf.got[i]}
    \cup {<<i, "volume">> : i \in {j \in DOMAIN tf.w : tf.w[j] = "volume"}}

\* C2: one permit pool of size K guards every outbound call: the HTTP
\* requests outstanding, over all workers and all batches, never number
\* more than K.
C2_GlobalHttpCap ==
    Cardinality(RcRequests) + Cardinality(MtRequests) + Cardinality(TfRequests)
        <= MaxPermits

\* the results a worker of timeframe.main has returned
TfResults == {Val(tf.results[i]) : i \in {j \in DOMAIN tf.results : IsSome(tf.results[j])}}

\* a step in which worker i of timeframe.main returns its result
TfReturns(i) ==
    /\ i \in DOMAIN tf.w
    /\ tf.w[i] = "volume"
    /\ tf'.w[i] = "done"

Qualifying(cap) == {t \in DOMAIN cap : IsSome(cap[t]) /\ Val(cap[t]) >= MIN_MCAP}

\* a step in which sync_to_mongo completes
RcCompletes == rc.pc = "sync" /\ rc'.pc = "idle"

\* C4: when sync_to_mongo completes, the persisted tickers are exactly the
\* candidates whose market cap is at least the threshold, each with that
\* market cap; every other record is gone.
C4_PersistedIsQualifying ==
    [][RcCompletes =>
          /\ Persisted(store') = Qualifying(rc.cap)
          /\ \A t \in Qualifying(rc.cap) : Val(store'[t]).market_cap = rc.cap[t]
      ]_vars

\* sync_to_mongo is about to delete: A is at the threshold, b is below it
\* and is persisted from an earlier run, B was created by a metrics refresh
C4_Witness ==
    /\ rc.pc = "sync"
    /\ rc.pending = {}
    /\ DOMAIN rc.cap = {"A", "b"}
    /\ rc.cap["A"] = Some(MIN_MCAP)
    /\ rc.cap["b"] = Some(MIN_MCAP - 1)
    /\ Persisted(store) = {"A", "b", "B"}

\* document d with its universe_updated_at blanked
SansUniverseTime(d) ==
    IF IsSome(d) THEN Some([Val(d) EXCEPT !.universe_updated_at = None]) ELSE d

\* C5: a reconcile that completes right after a completed reconcile with
\* the same candidates and market caps leaves the same tickers persisted,
\* and every record as it was but for its universe_updated_at.
C5_ReconcileIdempotent ==
    [][(RcCompletes /\ IsSome(hist.prev) /\ Val(hist.prev).cap = rc.cap) =>
          /\ Persisted(store') = Persisted(Val(hist.prev).store)
          /\ \A t \in Tickers :
                SansUniverseTime(store'[t]) = SansUniverseTime(Val(hist.prev).store[t])
      ]_vars

\* the second of two reconciles with the same answers is about to complete,
\* the first having left A and b persisted
C5_Witness ==
    /\ rc.pc = "sync"
    /\ rc.pending = {}
    /\ IsSome(hist.prev)
    /\ Val(hist.prev).cap = rc.cap
    /\ Persisted(Val(hist.prev).store) = {"A", "b"}
    /\ Val(store["A"]).universe_updated_at # Val(Val(hist.prev).store["A"]).universe_updated_at

\* C7 as amended: a reconcile never changes the created_at of a record it
\* finds; it deletes only records of tickers that did not qualify; and a
\* ticker that qualifies while it has no record, also one that had a record
\* before, gets a record whose created_at is the time of this reconcile.
C7_CreatedAtOfRequalified ==
    [][\A t \in Tickers :
          /\ (IsSome(store[t]) /\ IsSome(store'[t]))
                => Val(store'[t]).created_at = Val(store[t]).created_at
          /\ (IsSome(store[t]) /\ ~IsSome(store'[t])) => t \notin DOMAIN rc.passed
          /\ (~IsSome(store[t]) /\ IsSome(store'[t]))
                => /\ Val(store'[t]).created_at = Some(rc.now)
                   /\ IsSome(hist.born[t]) => rc.now > Val(hist.born[t])
      ]_vars

\* a ticker that qualified, failed and qualified again: its record is
\* younger than its first record
C7_Witness ==
    \E t \in Tickers :
        /\ IsSome(store[t])
        /\ IsSome(hist.born[t])
        /\ Val(Val(store[t]).created_at) > Val(hist.born[t])

\* C7 as stated: the created_at of a persisted record is the created_at
\* written when the ticker first qualified.
C7_CreatedAtNeverReset ==
    \A t \in Tickers :
        (IsSome(store[t]) /\ IsSome(hist.born[t]))
            => Val(store[t]).created_at = hist.born[t]

\* C6: a write to a record that exists (by sync_to_mongo, by
\* process_all_tickers or by the dashboard's save) leaves its created_at as
\* it was; a write that inserts a record sets created_at to the time of the
\* insert; and every persisted record has a created_at.
C6_CreatedAtSetOnce ==
    [][\A t \in Tickers :
          /\ (IsSome(store[t]) /\ IsSome(store'[t]))
                => Val(store'[t]).created_at = Val(store[t]).created_at
          /\ (~IsSome(store[t]) /\ IsSome(store'[t]))
                => Val(store'[t]).created_at = Some(clock)
          /\ IsSome(store'[t]) => IsSome(Val(store'[t]).created_at)
      ]_vars

\* a record inserted by the first reconcile, then written by a metrics
\* refresh and by a second reconcile
C6_Witness ==
    \E t \in Tickers :
        /\ IsSome(store[t])
        /\ Val(store[t]).created_at = Some(1)
        /\ Val(store[t]).metrics_updated_at = Some(2)
        /\ Val(store[t]).universe_updated_at = Some(3)

\* C8: a store write that fails for one symbol blocks no other symbol: when
\* a metrics refresh in which an upsert raised ends, no worker is left
\* that never ran or never wrote its data, and when a save loop in which an
\* update raised ends, the symbol that raised was the last of the list.
C8_WriteFailureIsolated ==
    [][/\ (mt.pc = "failed" /\ mt'.pc = "idle")
            => \A s \in DOMAIN mt.w : mt.w[s] \in {"done", "raised"}
       /\ (tf.pc = "failed" /\ tf'.pc = "idle") => tf.idx = Len(tf.list)
      ]_vars

PassFields == {"eps", "pe_ratio", "close_price", "net_profit_margin",
               "stock_change_pct", "volume_custom"}

\* a step in which worker s of process_all_tickers has its upsert applied
MtWrites(s) ==
    /\ s \in DOMAIN mt.w
    /\ s \in DOMAIN mt'.w
    /\ mt.w[s] = "write"
    /\ mt'.w[s] = "done"

\* a step in which worker s ends because fetch_metrics returned no result
MtSkips(s) ==
    /\ s \in DOMAIN mt.w
    /\ s \in DOMAIN mt'.w
    /\ mt.w[s] = "fetch"
    /\ mt'.w[s] = "done"

\* a step in which the save loop has an update applied
TfSaves == tf.pc = "save" /\ tf'.pc # "failed" /\ tf' # tf

\* C10 as amended: a metrics write sets every field of fetch_metrics' result
\* to the result's value, null included, and leaves the other fields of the
\* record as they were; a worker whose fetch_metrics returned no result
\* writes nothing; a timeframe save sets stock_change_pct and volume_custom
\* of an existing record to the result's values, null included, and leaves
\* its other fields as they were.
C10_MergeSetsPayloadFields ==
    [][/\ \A s \in Tickers :
            MtWrites(s) =>
                LET p == Val(mt.data[s]).set
                IN /\ IsSome(store'[s])
                   /\ \A f \in DOMAIN p : Val(store'[s])[f] = p[f]
                   /\ IsSome(store[s]) =>
                         \A f \in Fields \ DOMAIN p :
                            Val(store'[s])[f] = Val(store[s])[f]
                   /\ \A t \in Tickers \ {s} : store'[t] = store[t]
       /\ \A s \in Tickers : MtSkips(s) => store' = store
       /\ TfSaves =>
            LET m == Val(tf.results[tf.idx])
            IN /\ IsSome(store[m.ticker]) =>
                    /\ IsSome(store'[m.ticker])
                    /\ Val(store'[m.ticker]).stock_change_pct = m.stock_change_pct
                    /\ Val(store'[m.ticker]).volume_custom = m.volume_custom
                    /\ \A f \in Fields \ {"stock_change_pct", "volume_custom"} :
                          Val(store'[m.ticker])[f] = Val(store[m.ticker])[f]
               /\ \A t \in Tickers \ {m.ticker} : store'[t] = store[t]
      ]_vars

\* a metrics worker is about to write a result without eps over a record
\* that has one
C10_Witness ==
    \E s \in DOMAIN mt.w :
        /\ mt.w[s] = "write"
        /\ Val(mt.data[s]).set.eps = None
        /\ IsSome(store[s])
        /\ IsSome(Val(store[s]).eps)

\* C10 as stated: a field of a pass that is populated in a record stays
\* populated as long as the record exists; no pass replaces it by null.
C10_NeverReplacedByNull ==
    [][\A t \in Tickers, f \in PassFields :
          (IsSome(store[t]) /\ IsSome(store'[t]) /\ IsSome(Val(store[t])[f]))
              => IsSome(Val(store'[t])[f])
      ]_vars

\* the fields the metrics refresh computes
MetricFields == {"metrics_updated_at", "industry", "eps", "net_income_quarterly",
                 "revenue_quarterly", "net_profit_margin", "close_price", "pe_ratio"}

\* the fields the dashboard's save writes
TimeframeFields == {"stock_change_pct", "volume_custom"}

\* a step in which the store applies sync_to_mongo's update_one for t
RcUpserts(t) == t \in rc.pending /\ t \notin rc'.pending /\ rc'.pc = rc.pc

\* document d restricted to the fields F, None when there is no document
Only(d, F) == IF IsSome(d) THEN Some([f \in F |-> Val(d)[f]]) ELSE d

\* C11: an upsert changes the record of its own key only, and in it the
\* fields of its payload only. A metrics write leaves market_cap,
\* universe_updated_at, created_at and the timeframe fields of an existing
\* record as they were, a reconcile upsert of an existing record its metric
\* and timeframe fields and created_at, a timeframe save every field but
\* stock_change_pct and volume_custom; no write changes another record.
C11_WriteTouchesOwnPayloadOnly ==
    [][/\ \A s \in Tickers :
            MtWrites(s) =>
                /\ \A t \in Tickers \ {s} : store'[t] = store[t]
                /\ IsSome(store[s]) =>
                      Only(store'[s], Fields \ MetricFields)
                          = Only(store[s], Fields \ MetricFields)
       /\ \A t \in Tickers :
            RcUpserts(t) =>
                /\ \A u \in Tickers \ {t} : store'[u] = store[u]
                /\ IsSome(store[t]) =>
                      Only(store'[t], Fields \ {"market_cap", "universe_updated_at"})
                          = Only(store[t], Fields \ {"market_cap", "universe_updated_at"})
       /\ TfSaves =>
            LET k == Val(tf.results[tf.idx]).ticker
            IN /\ \A t \in Tickers \ {k} : store'[t] = store[t]
               /\ Only(store'[k], Fields \ TimeframeFields)
                      = Only(store[k], Fields \ TimeframeFields)
      ]_vars

\* a metrics worker is about to write over a record that has a market cap
\* from a reconcile and a change and a volume from a timeframe save
C11_Witness ==
    \E s \in DOMAIN mt.w :
        /\ mt.w[s] = "write"
        /\ IsSome(store[s])
        /\ IsSome(Val(store[s]).market_cap)
        /\ IsSome(Val(store[s]).stock_change_pct)
        /\ IsSome(Val(store[s]).volume_custom)

\* the close a price response carries, None when it failed or has none
CloseOf(resp) == IF resp.status = "ok" THEN resp.close ELSE None

\* C12 as amended: if the start or the end price is missing (the lookup
\* failed, returned no close, or returned a close of 0) the result has
\* stock_change_pct and volume_custom both null, whatever the volume lookup
\* returned. Otherwise stock_change_pct is (end - start) / start * 100
\* rounded to the nearest hundredth (start 100, end 110 gives 10.00), and
\* volume_custom is the sum of the volumes of the bars, or null when the
\* volume lookup failed.
C12_StockMetricsResult ==
    calc.op = "tf_done" =>
        LET sp == CloseOf(calc.start)
            ep == CloseOf(calc.end)
            m == Val(calc.out)
        IN /\ m.ticker = calc.ticker
           /\ (sp \in {None, Some(0)} \/ ep \in {None, Some(0)})
                 => (m.stock_change_pct = None /\ m.volume_custom = None)
           /\ (sp \notin {None, Some(0)} /\ ep \notin {None, Some(0)})
                 => /\ IsSome(m.stock_change_pct)
                    /\ LET d == Val(m.stock_change_pct) * Val(sp)
                                    - (Val(ep) - Val(sp)) * 10000
                       IN 2 * d <= Val(sp) /\ 2 * (-d) <= Val(sp)
                    /\ calc.vol.status # "ok" => m.volume_custom = None
                    /\ calc.vol.status = "ok"
                          => m.volume_custom = Some(SumSeq(Present(calc.vol.results)))
           /\ (sp = Some(100) /\ ep = Some(110)) => m.stock_change_pct = Some(1000)

\* start 100, end 110 and bars of volume 3 and 4: the change is 10.00 and
\* the volume 7
C12_Witness ==
    /\ calc.op = "tf_done"
    /\ calc.start = [status |-> "ok", close |-> Some(100)]
    /\ calc.end = [status |-> "ok", close |-> Some(110)]
    /\ Val(calc.out).stock_change_pct = Some(1000)
    /\ Val(calc.out).volume_custom = Some(7)

\* C12 as stated: with a price lookup failed or without a close both fields
\* are null, and with both closes present stock_change_pct is exactly
\* (end - start) / start * 100 and comes with the summed volume.
C12_ExactChangeWithVolume ==
    calc.op = "tf_done" =>
        LET sp == CloseOf(calc.start)
            ep == CloseOf(calc.end)
            m == Val(calc.out)
        IN /\ (sp = None \/ ep = None)
                 => (m.stock_change_pct = None /\ m.volume_custom = None)
           /\ (sp # None /\ ep # None)
                 => /\ IsSome(m.stock_change_pct)
                    /\ Val(m.stock_change_pct) * Val(sp)
                          = (Val(ep) - Val(sp)) * 10000
                    /\ IsSome(m.volume_custom)

\* revenue and net income of the latest report of a financials response
LatestOf(fin, field) ==
    IF fin.results = <<>> THEN None ELSE fin.results[1][field]

\* C13: in a result of fetch_metrics, net_profit_margin is null when the
\* revenue is 0 or missing or the net income is missing, and pe_ratio is
\* null when eps is null or 0 or there is no close price; otherwise each is
\* a number. A null ratio does not take the result away: whenever the three
\* requests are answered the result is returned, with industry and
\* metrics_updated_at.
C13_RatiosNullOnBadDenominator ==
    calc.op = "done" =>
        /\ (calc.ref.status = "ok" /\ calc.fin.status = "ok" /\ calc.oc.status # "fail")
              => IsSome(calc.out)
        /\ IsSome(calc.out) =>
             LET out == Val(calc.out)
                 revenue == LatestOf(calc.fin, "revenues")
                 net_income == LatestOf(calc.fin, "net_income")
             IN /\ out.revenue_quarterly = revenue
                /\ out.net_income_quarterly = net_income
                /\ out.industry = calc.ref.sic_description
                /\ IsSome(out.metrics_updated_at)
                /\ (revenue \in {None, Some(0)} \/ net_income = None)
                      <=> out.net_profit_margin = None
                /\ (out.eps \in {None, Some(0)} \/ out.close_price = None)
                      <=> out.pe_ratio = None

\* results with a ratio null for its denominator: revenue 0 and eps 0 with
\* a close price, and the industry and the close price are returned
C13_Witness ==
    /\ calc.op = "done"
    /\ IsSome(calc.out)
    /\ Val(calc.out).revenue_quarterly = Some(0)
    /\ Val(calc.out).net_income_quarterly = Some(20)
    /\ Val(calc.out).net_profit_margin = None
    /\ Val(calc.out).eps = Some(0)
    /\ Val(calc.out).close_price = Some(3000)
    /\ Val(calc.out).pe_ratio = None
    /\ Val(calc.out).industry = Some("Tech")

\* C14: a write of a metrics refresh and a save of the dashboard only
\* update records that exist, so they leave the set of persisted tickers
\* as it was; that set changes in steps of sync_to_mongo only.
C14_OnlyReconcilerCreates ==
    [][/\ \A s \in Tickers : MtWrites(s) => Persisted(store') = Persisted(store)
       /\ TfSaves => Persisted(store') = Persisted(store)
       /\ Persisted(store') # Persisted(store) => rc' # rc
      ]_vars

C16_EveryWorkerFinishes ==
    /\ \A s \in Tickers :
          (mt.pc = "run" /\ s \in DOMAIN mt.w /\ mt.w[s] = "wait")
              ~> (s \in DOMAIN mt.w /\ mt.w[s] = "done")
    /\ (mt.pc = "run")
          ~> (/\ mt.pc = "run"
              /\ \A s \in DOMAIN mt.w : mt.w[s] = "done"
              /\ mt.sem = MaxPermits)
    /\ \A i \in 1..Cardinality(Tickers) :
          (tf.pc = "run" /\ i \in DOMAIN tf.w /\ tf.w[i] = "wait")
              ~> (i \in DOMAIN tf.w /\ tf.w[i] = "done")
    /\ (tf.pc = "run")
          ~> (/\ tf.pc = "run"
              /\ \A i \in DOMAIN tf.w : tf.w[i] = "done"
              /\ tf.sem = MaxPermits)

\* the part of C16 that is about timeframe.main
C16_TimeframeBatchFinishes ==
    (tf.pc = "run")
        ~> (/\ tf.pc = "run"
            /\ \A i \in DOMAIN tf.w : tf.w[i] = "done"
            /\ tf.sem = MaxPermits)

\* a step in which the gather of process_all_tickers returns
MtGathers == mt.pc = "run" /\ mt'.pc = "idle"

\* the fields of a result of fetch_metrics, but for its timestamp
ResultFields == MetricFields \ {"metrics_updated_at"}

RECURSIVE EpsSum(_, _)
EpsSum(reports, n) ==
    IF n = 0 THEN 0
    ELSE EpsSum(reports, n - 1)
         + (IF IsSome(reports[n].eps) THEN Val(reports[n].eps) ELSE 0)

EpsCount(reports) == Cardinality({i \in DOMAIN reports : IsSome(reports[i].eps)})

\* C18: in a result of fetch_metrics over at most 4 reports, eps is the sum
\* of the EPS values of the reports that carry one, to the 4 decimals the
\* code keeps; reports without a value add nothing; if no report carries a
\* value, or there is no report, eps is null, not 0; and with eps null
\* pe_ratio is null.
C18_EpsTtmIsSumOfPresent ==
    (calc.op = "done" /\ IsSome(calc.out)) =>
        LET reports == calc.fin.results
            out == Val(calc.out)
            sum == EpsSum(reports, Len(reports))
        IN /\ Len(reports) <= 4
           /\ EpsCount(reports) = 0 <=> out.eps = None
           /\ EpsCount(reports) > 0 =>
                 /\ 2 * (10 * Val(out.eps) - sum) <= 10
                 /\ 2 * (sum - 10 * Val(out.eps)) <= 10
           /\ out.eps = None => out.pe_ratio = None

\* two reports, the second without an EPS value: eps is the first's 1.5000
\* and, with a close of 30.00, pe_ratio is 20.00
C18_Witness ==
    /\ calc.op = "done"
    /\ IsSome(calc.out)
    /\ Len(calc.fin.results) = 2
    /\ calc.fin.results[2].eps = None
    /\ Val(calc.out).eps = Some(15000)
    /\ Val(calc.out).pe_ratio = Some(2000)

\* C19: when a metrics refresh overlaps a reconcile, then once the reconcile
\* has completed and both programs have finished, the persisted tickers are
\* the qualifying set of that reconcile and every record carries a
\* market_cap. (hist.prev is that reconcile's outcome; a metrics refresh
\* started after it resets hist.prev.)
C19_PersistedIsQualifyingAfterBoth ==
    (rc.pc = "idle" /\ mt.pc = "idle" /\ IsSome(hist.prev)) =>
        /\ Persisted(store) = Qualifying(Val(hist.prev).cap)
        /\ \A t \in Persisted(store) : IsSome(Val(store[t]).market_cap)

\* a record of A, deleted by a reconcile, is there again without market_cap
C19_RecreatedAfterDelete ==
    /\ rc.pc = "idle"
    /\ mt.pc = "idle"
    /\ IsSome(hist.prev)
    /\ "A" \notin Qualifying(Val(hist.prev).cap)
    /\ IsSome(store["A"])
    /\ Val(store["A"]).market_cap = None

\* a step in which the fetch of candidate t gets its answer
RcAnswers(t) ==
    /\ t \in DOMAIN rc.w
    /\ t \in DOMAIN rc'.w
    /\ rc.w[t] = "fetch"
    /\ rc'.w[t] = "done"

\* C20: a candidate whose market-cap lookup failed or returned no market
\* cap (get_market_cap gave None) is left out of the qualifying set like a
\* candidate below the threshold, and has no record once sync_to_mongo has
\* completed, also if it had one before; the answer to one candidate's
\* lookup, whatever it is, leaves the batch running and the other
\* candidates' lookups as they were, and every candidate is looked up
\* before sync_to_mongo starts.
C20_FailedLookupIsDisqualified ==
    [][/\ RcCompletes =>
            \A t \in DOMAIN rc.cap :
                /\ (rc.cap[t] = None \/ Val(rc.cap[t]) < MIN_MCAP)
                      => (t \notin DOMAIN rc.passed /\ ~IsSome(store'[t]))
                /\ (rc.cap[t] # None /\ Val(rc.cap[t]) >= MIN_MCAP)
                      => (t \in DOMAIN rc.passed /\ IsSome(store'[t]))
       /\ \A t \in Cands :
            RcAnswers(t) =>
                /\ rc'.pc = "filter"
                /\ \A u \in DOMAIN rc.w \ {t} : rc'.w[u] = rc.w[u]
       /\ (rc.pc = "filter" /\ rc'.pc = "sync")
            => \A t \in DOMAIN rc.w : rc.w[t] = "done"
      ]_vars

\* sync_to_mongo is about to delete: the lookup of A gave no market cap and
\* A has a record from an earlier reconcile, while b qualified
C20_Witness ==
    /\ rc.pc = "sync"
    /\ rc.pending = {}
    /\ DOMAIN rc.cap = {"A", "b"}
    /\ rc.cap["A"] = None
    /\ IsSome(store["A"])
    /\ "b" \in DOMAIN rc.passed
    /\ IsSome(store["b"])

====
